---------------------------- MODULE Spec2Model ----------------------------
(***************************************************************************)
(* Model of v_sokoban.py: the board parser (parse_xsb_board), the          *)
(* predicate builders gen_..., the SMV synthesizer generate_smv_model,      *)
(* the transition system the emitted SMV text denotes, and the trace       *)
(* decoder (extract_solution).                                             *)
(*                                                                         *)
(* A text is a sequence of characters (one-character strings).  A board    *)
(* text is a sequence of lines, each a sequence of characters.  The SMV    *)
(* text the synthesizer emits is modelled by its syntax tree: every        *)
(* f-string of the source becomes the record of the expression it prints,  *)
(* and EvalF / EvalT give the emitted expressions their SMV meaning.       *)
(***************************************************************************)
EXTENDS Integers, Sequences, FiniteSets, TLC

VARIABLES
    pc,            \* position in main(): "parse", "generate", "run", "failed",
                   \* or "decode" / "decoded" for the decoder
    input_board,   \* the lines of the board file
    parsed_board,  \* the dictionary parse_xsb_board returns (None before)
    smv_model,     \* the emitted SMV model (None before)
    player_x, player_y, box_x, box_y, move,   \* the SMV model's state variables
    nuxmv_output,  \* the text handed to extract_solution
    solution       \* what extract_solution returned

vars == <<pc, input_board, parsed_board, smv_model,
          player_x, player_y, box_x, box_y, move, nuxmv_output, solution>>

None == <<>>

(***************************************************************************)
(* Bounds of the model.                                                    *)
(***************************************************************************)
MaxBoxes  == 2    \* boxes placed on an arena
MaxRowLen == 2    \* length of the one-row texts over the full alphabet
MaxPieces == 5    \* pieces a checker output is made of

(***************************************************************************)
(* Helpers on sequences and cells.                                         *)
(***************************************************************************)
Min(a, b) == IF a <= b THEN a ELSE b

RECURSIVE SeqsUpTo(_, _)
SeqsUpTo(S, n) ==
    IF n = 0 THEN {<<>>}
    ELSE LET shorter == SeqsUpTo(S, n - 1)
         IN  shorter \cup {Append(s, c) : s \in {t \in shorter : Len(t) = n - 1}, c \in S}

Range(s) == {s[i] : i \in 1..Len(s)}

(***************************************************************************)
(* parse_xsb_board                                                         *)
(***************************************************************************)
\* line.strip() == "": the line holds white space only
IsBlankLine(line) == \A i \in 1..Len(line) : line[i] = " "

\* lines = [line for line in f if line.strip() != ""]
NonBlankLines(text) == SelectSeq(text, LAMBDA line : ~IsBlankLine(line))

\* max(len(line) for line in lines); lines is not empty
MaxLineLen(lines) ==
    CHOOSE w \in {Len(lines[i]) : i \in 1..Len(lines)} :
        \A i \in 1..Len(lines) : Len(lines[i]) <= w

\* row = list(line.ljust(width)); ch = row[x]
CharAt(lines, x, y) ==
    IF x + 1 <= Len(lines[y + 1]) THEN lines[y + 1][x + 1] ELSE " "

\* a scan that goes down the columns first
ScanOrder_ColumnFirst(width, height) ==
    [k \in 1..(width * height) |-> <<(k - 1) \div height, (k - 1) % height>>]

\* for y, line in enumerate(lines): for x, ch in enumerate(row): the cells in
\* the order the two loops visit them
ScanOrder(width, height) ==
    [k \in 1..(width * height) |-> <<(k - 1) % width, (k - 1) \div width>>]

IsWallChar(ch)   == ch = "#"
IsTargetChar(ch) == ch \in {".", "+", "*"}
\* a box test that misses the box standing on a target
IsBoxChar_NoStar(ch) == ch = "$"
IsBoxChar(ch)    == ch \in {"$", "*"}
IsPlayerChar(ch) == ch \in {"@", "+"}

\* player = (x, y) is assigned at every player character: the last one stays
LastPlayer(lines, scan) ==
    LET hits == SelectSeq(scan, LAMBDA c : IsPlayerChar(CharAt(lines, c[1], c[2])))
    IN  IF hits = <<>> THEN None ELSE hits[Len(hits)]

\* The dictionary returned, or the ValueError max() raises on no line.
parse_xsb_board(text) ==
    LET lines == NonBlankLines(text)
    IN  IF lines = <<>> THEN [error |-> "ValueError"]
        ELSE LET height == Len(lines)
                 width  == MaxLineLen(lines)
                 scan   == ScanOrder(width, height)
             IN  [width   |-> width,
                  height  |-> height,
                  walls   |-> {scan[k] : k \in {j \in 1..Len(scan) :
                                  IsWallChar(CharAt(lines, scan[j][1], scan[j][2]))}},
                  targets |-> SelectSeq(scan, LAMBDA c :
                                  IsTargetChar(CharAt(lines, c[1], c[2]))),
                  boxes   |-> SelectSeq(scan, LAMBDA c :
                                  IsBoxChar(CharAt(lines, c[1], c[2]))),
                  player  |-> LastPlayer(lines, scan)]

Raised(r) == "error" \in DOMAIN r

(***************************************************************************)
(* Syntax of the emitted SMV expressions.  Terms: a number, a symbol       *)
(* (player_x, WIDTH, a move symbol), an array element box_x[i], a term     *)
(* plus or minus a number.  Formulas: TRUE, FALSE, comparisons, !, and     *)
(* the " & " / " | " joins of a list of formulas.                          *)
(***************************************************************************)
Num(n)      == [t |-> "num", n |-> n]
Sym(s)      == [t |-> "sym", s |-> s]
Arr(a, i)   == [t |-> "arr", a |-> a, i |-> i]
Plus(e, k)  == [t |-> "plus", e |-> e, k |-> k]
Minus(e, k) == [t |-> "minus", e |-> e, k |-> k]

TrueF     == [f |-> "TRUE"]
FalseF    == [f |-> "FALSE"]
Eq(a, b)  == [f |-> "=", a |-> a, b |-> b]
Ge(a, b)  == [f |-> ">=", a |-> a, b |-> b]
Lt(a, b)  == [f |-> "<", a |-> a, b |-> b]
NotF(g)   == [f |-> "!", g |-> g]
\* " & ".join(conds) and " | ".join(conds); the join of no formula is the
\* empty string, which is no SMV expression
JoinAnd(conds) == [f |-> "&", args |-> conds]
JoinOr(conds)  == [f |-> "|", args |-> conds]

\* The cells of a Python set in the order the set is iterated: the order is
\* fixed for a given set; row-major stands for it.
RECURSIVE SetToSeq(_)
SetToSeq(S) ==
    IF S = {} THEN <<>>
    ELSE LET c == CHOOSE a \in S : \A b \in S :
                      a[2] < b[2] \/ (a[2] = b[2] /\ a[1] <= b[1])
         IN  <<c>> \o SetToSeq(S \ {c})

(***************************************************************************)
(* The predicate builders.                                                 *)
(***************************************************************************)
\* bounds that let the column WIDTH and the row HEIGHT in
gen_in_bounds_Inclusive(expr_x, expr_y) ==
    JoinAnd(<<Ge(expr_x, Num(0)), Lt(expr_x, Plus(Sym("WIDTH"), 1)),
              Ge(expr_y, Num(0)), Lt(expr_y, Plus(Sym("HEIGHT"), 1))>>)

gen_in_bounds(expr_x, expr_y) ==
    JoinAnd(<<Ge(expr_x, Num(0)), Lt(expr_x, Sym("WIDTH")),
              Ge(expr_y, Num(0)), Lt(expr_y, Sym("HEIGHT"))>>)

\* a wall test that knows of no wall
gen_not_wall_NoWalls(expr_x, expr_y, walls) == TrueF

gen_not_wall(expr_x, expr_y, walls) ==
    IF walls = {} THEN TrueF
    ELSE LET ws == SetToSeq(walls)
         IN  JoinAnd([k \in 1..Len(ws) |->
                 NotF(JoinAnd(<<Eq(expr_x, Num(ws[k][1])), Eq(expr_y, Num(ws[k][2]))>>))])

BoxConditions(expr_x, expr_y, num_boxes) ==
    [i \in 1..num_boxes |->
        JoinAnd(<<Eq(expr_x, Arr("box_x", i)), Eq(expr_y, Arr("box_y", i))>>)]

gen_not_box(expr_x, expr_y, num_boxes) ==
    IF num_boxes = 0 THEN TrueF
    ELSE NotF(JoinOr(BoxConditions(expr_x, expr_y, num_boxes)))

gen_free_cell(expr_x, expr_y, walls, num_boxes) ==
    JoinAnd(<<gen_in_bounds(expr_x, expr_y),
              gen_not_wall(expr_x, expr_y, walls),
              gen_not_box(expr_x, expr_y, num_boxes)>>)

gen_box_at(expr_x, expr_y, num_boxes) ==
    IF num_boxes = 0 THEN FalseF
    ELSE JoinOr(BoxConditions(expr_x, expr_y, num_boxes))

(***************************************************************************)
(* generate_smv_model                                                      *)
(***************************************************************************)
\* Mutant of KeyLe: the key is (pos[0], pos[1]), column before row.
KeyLe_ColumnFirst(a, b) == a[1] < b[1] \/ (a[1] = b[1] /\ a[2] <= b[2])

\* key=lambda pos: (pos[1], pos[0])
KeyLe(a, b) == a[2] < b[2] \/ (a[2] = b[2] /\ a[1] <= b[1])

\* list.sort is stable: an element goes after the elements whose key is not
\* greater than its own
RECURSIVE InsertByKey(_, _)
InsertByKey(sorted, c) ==
    IF sorted = <<>> THEN <<c>>
    ELSE IF KeyLe(sorted[Len(sorted)], c) THEN Append(sorted, c)
    ELSE Append(InsertByKey(SubSeq(sorted, 1, Len(sorted) - 1), c), sorted[Len(sorted)])

\* no sort: every call turns the list round
SortTargets_TurnsRound(targets) ==
    [k \in 1..Len(targets) |-> targets[Len(targets) + 1 - k]]

RECURSIVE SortTargets(_)
SortTargets(targets) ==
    IF targets = <<>> THEN <<>>
    ELSE InsertByKey(SortTargets(SubSeq(targets, 1, Len(targets) - 1)),
                     targets[Len(targets)])

PX == Sym("player_x")
PY == Sym("player_y")
MoveIs(m) == Eq(Sym("move"), Sym(m))

\* Mutant of FreeGuard: free_up looks at the cell below the agent.
FreeGuard_UpLooksDown(m, walls, n) ==
    CASE m = "l" -> gen_free_cell(Minus(PX, 1), PY, walls, n)
      [] m = "r" -> gen_free_cell(Plus(PX, 1), PY, walls, n)
      [] m = "u" -> gen_free_cell(PX, Plus(PY, 1), walls, n)
      [] m = "d" -> gen_free_cell(PX, Plus(PY, 1), walls, n)

\* free_left, free_right, free_up, free_down
FreeGuard(m, walls, n) ==
    CASE m = "l" -> gen_free_cell(Minus(PX, 1), PY, walls, n)
      [] m = "r" -> gen_free_cell(Plus(PX, 1), PY, walls, n)
      [] m = "u" -> gen_free_cell(PX, Minus(PY, 1), walls, n)
      [] m = "d" -> gen_free_cell(PX, Plus(PY, 1), walls, n)

\* Mutant of PushGuard: push_right wants the cell three cells away free.
PushGuard_RightTooFar(m, walls, n) ==
    CASE m = "L" -> JoinAnd(<<gen_box_at(Minus(PX, 1), PY, n),
                              gen_free_cell(Minus(PX, 2), PY, walls, n)>>)
      [] m = "R" -> JoinAnd(<<gen_box_at(Plus(PX, 1), PY, n),
                              gen_free_cell(Plus(PX, 3), PY, walls, n)>>)
      [] m = "U" -> JoinAnd(<<gen_box_at(PX, Minus(PY, 1), n),
                              gen_free_cell(PX, Minus(PY, 2), walls, n)>>)
      [] m = "D" -> JoinAnd(<<gen_box_at(PX, Plus(PY, 1), n),
                              gen_free_cell(PX, Plus(PY, 2), walls, n)>>)

\* Mutant of PushGuard: push_left wants the box's own cell free (x - 1 for
\* x - 2).
PushGuard_LeftOffByOne(m, walls, n) ==
    CASE m = "L" -> JoinAnd(<<gen_box_at(Minus(PX, 1), PY, n),
                              gen_free_cell(Minus(PX, 1), PY, walls, n)>>)
      [] m = "R" -> JoinAnd(<<gen_box_at(Plus(PX, 1), PY, n),
                              gen_free_cell(Plus(PX, 2), PY, walls, n)>>)
      [] m = "U" -> JoinAnd(<<gen_box_at(PX, Minus(PY, 1), n),
                              gen_free_cell(PX, Minus(PY, 2), walls, n)>>)
      [] m = "D" -> JoinAnd(<<gen_box_at(PX, Plus(PY, 1), n),
                              gen_free_cell(PX, Plus(PY, 2), walls, n)>>)

\* push_left, push_right, push_up, push_down
PushGuard(m, walls, n) ==
    CASE m = "L" -> JoinAnd(<<gen_box_at(Minus(PX, 1), PY, n),
                              gen_free_cell(Minus(PX, 2), PY, walls, n)>>)
      [] m = "R" -> JoinAnd(<<gen_box_at(Plus(PX, 1), PY, n),
                              gen_free_cell(Plus(PX, 2), PY, walls, n)>>)
      [] m = "U" -> JoinAnd(<<gen_box_at(PX, Minus(PY, 1), n),
                              gen_free_cell(PX, Minus(PY, 2), walls, n)>>)
      [] m = "D" -> JoinAnd(<<gen_box_at(PX, Plus(PY, 1), n),
                              gen_free_cell(PX, Plus(PY, 2), walls, n)>>)

Branch(guard, value) == [guard |-> guard, value |-> value]
Guarded(m, cond, value) == Branch(JoinAnd(<<MoveIs(m), cond>>), value)

\* a case whose last branch moves the agent to the right
NextPlayerX_DefaultDrifts(walls, n) ==
    << Guarded("l", FreeGuard("l", walls, n), Minus(PX, 1)),
       Guarded("r", FreeGuard("r", walls, n), Plus(PX, 1)),
       Guarded("u", FreeGuard("u", walls, n), PX),
       Guarded("d", FreeGuard("d", walls, n), PX),
       Guarded("L", PushGuard("L", walls, n), Minus(PX, 1)),
       Guarded("R", PushGuard("R", walls, n), Plus(PX, 1)),
       Guarded("U", PushGuard("U", walls, n), PX),
       Guarded("D", PushGuard("D", walls, n), PX),
       Branch(TrueF, Plus(PX, 1)) >>

\* next(player_x) := case ... esac;
NextPlayerX(walls, n) ==
    << Guarded("l", FreeGuard("l", walls, n), Minus(PX, 1)),
       Guarded("r", FreeGuard("r", walls, n), Plus(PX, 1)),
       Guarded("u", FreeGuard("u", walls, n), PX),
       Guarded("d", FreeGuard("d", walls, n), PX),
       Guarded("L", PushGuard("L", walls, n), Minus(PX, 1)),
       Guarded("R", PushGuard("R", walls, n), Plus(PX, 1)),
       Guarded("U", PushGuard("U", walls, n), PX),
       Guarded("D", PushGuard("D", walls, n), PX),
       Branch(TrueF, PX) >>

\* next(player_y) := case ... esac;
NextPlayerY(walls, n) ==
    << Guarded("l", FreeGuard("l", walls, n), PY),
       Guarded("r", FreeGuard("r", walls, n), PY),
       Guarded("u", FreeGuard("u", walls, n), Minus(PY, 1)),
       Guarded("d", FreeGuard("d", walls, n), Plus(PY, 1)),
       Guarded("L", PushGuard("L", walls, n), PY),
       Guarded("R", PushGuard("R", walls, n), PY),
       Guarded("U", PushGuard("U", walls, n), Minus(PY, 1)),
       Guarded("D", PushGuard("D", walls, n), Plus(PY, 1)),
       Branch(TrueF, PY) >>

\* a test of the box's row only
BoxIsAt_RowOnly(i, ex, ey) ==
    JoinAnd(<<Eq(Arr("box_y", i), ey)>>)

BoxIsAt(i, ex, ey) ==
    JoinAnd(<<Eq(Arr("box_x", i), ex), Eq(Arr("box_y", i), ey)>>)

\* Mutant of NextBoxX: the landing cell of a pushed box is not looked at.
NextBoxX_NoLandingCheck(i, walls, n) ==
    << Branch(JoinAnd(<<MoveIs("L"), BoxIsAt(i, Minus(PX, 1), PY)>>),
              Minus(Arr("box_x", i), 1)),
       Branch(JoinAnd(<<MoveIs("R"), BoxIsAt(i, Plus(PX, 1), PY)>>),
              Plus(Arr("box_x", i), 1)),
       Branch(TrueF, Arr("box_x", i)) >>

\* a box that goes left with every move l of the agent
NextBoxX_FollowsLowerL(i, walls, n) ==
    << Branch(MoveIs("l"), Minus(Arr("box_x", i), 1)),
       Branch(JoinAnd(<<MoveIs("L"), BoxIsAt(i, Minus(PX, 1), PY),
                        gen_free_cell(Minus(PX, 2), PY, walls, n)>>),
              Minus(Arr("box_x", i), 1)),
       Branch(JoinAnd(<<MoveIs("R"), BoxIsAt(i, Plus(PX, 1), PY),
                        gen_free_cell(Plus(PX, 2), PY, walls, n)>>),
              Plus(Arr("box_x", i), 1)),
       Branch(TrueF, Arr("box_x", i)) >>

\* next(box_x[i]) := case ... esac;
NextBoxX(i, walls, n) ==
    << Branch(JoinAnd(<<MoveIs("L"), BoxIsAt(i, Minus(PX, 1), PY),
                        gen_free_cell(Minus(PX, 2), PY, walls, n)>>),
              Minus(Arr("box_x", i), 1)),
       Branch(JoinAnd(<<MoveIs("R"), BoxIsAt(i, Plus(PX, 1), PY),
                        gen_free_cell(Plus(PX, 2), PY, walls, n)>>),
              Plus(Arr("box_x", i), 1)),
       Branch(TrueF, Arr("box_x", i)) >>

\* next(box_y[i]) := case ... esac;
NextBoxY(i, walls, n) ==
    << Branch(JoinAnd(<<MoveIs("U"), BoxIsAt(i, PX, Minus(PY, 1)),
                        gen_free_cell(PX, Minus(PY, 2), walls, n)>>),
              Minus(Arr("box_y", i), 1)),
       Branch(JoinAnd(<<MoveIs("D"), BoxIsAt(i, PX, Plus(PY, 1)),
                        gen_free_cell(PX, Plus(PY, 2), walls, n)>>),
              Plus(Arr("box_y", i), 1)),
       Branch(TrueF, Arr("box_y", i)) >>

\* for i, (tx, ty) in enumerate(targets[:num_boxes], start=1)
WinConditions(targets, num_boxes) ==
    [i \in 1..Min(num_boxes, Len(targets)) |->
        JoinAnd(<<Eq(Arr("box_x", i), Num(targets[i][1])),
                  Eq(Arr("box_y", i), Num(targets[i][2]))>>)]

\* The emitted model, or the TypeError player[0] raises when player is None.
generate_smv_model(board) ==
    LET n       == Len(board.boxes)
        targets == SortTargets(board.targets)
    IN  IF board.player = None THEN [error |-> "TypeError"]
        ELSE [WIDTH         |-> board.width,
              HEIGHT        |-> board.height,
              NUM_BOXES     |-> n,
              init_player_x |-> board.player[1],
              init_player_y |-> board.player[2],
              init_box_x    |-> [i \in 1..n |-> board.boxes[i][1]],
              init_box_y    |-> [i \in 1..n |-> board.boxes[i][2]],
              next_player_x |-> NextPlayerX(board.walls, n),
              next_player_y |-> NextPlayerY(board.walls, n),
              next_box_x    |-> [i \in 1..n |-> NextBoxX(i, board.walls, n)],
              next_box_y    |-> [i \in 1..n |-> NextBoxY(i, board.walls, n)],
              win           |-> JoinAnd(WinConditions(targets, n))]

(***************************************************************************)
(* Meaning of the emitted expressions in a state of the SMV model.         *)
(***************************************************************************)
RECURSIVE EvalT(_, _)
EvalT(e, env) ==
    CASE e.t = "num"   -> e.n
      [] e.t = "sym"   -> IF e.s \in DOMAIN env THEN env[e.s] ELSE e.s
      [] e.t = "arr"   -> env[e.a][e.i]
      [] e.t = "plus"  -> EvalT(e.e, env) + e.k
      [] e.t = "minus" -> EvalT(e.e, env) - e.k

RECURSIVE EvalF(_, _)
EvalF(g, env) ==
    CASE g.f = "TRUE"  -> TRUE
      [] g.f = "FALSE" -> FALSE
      [] g.f = "="     -> EvalT(g.a, env) = EvalT(g.b, env)
      [] g.f = ">="    -> EvalT(g.a, env) >= EvalT(g.b, env)
      [] g.f = "<"     -> EvalT(g.a, env) < EvalT(g.b, env)
      [] g.f = "!"     -> ~EvalF(g.g, env)
      [] g.f = "&"     -> \A k \in 1..Len(g.args) : EvalF(g.args[k], env)
      [] g.f = "|"     -> \E k \in 1..Len(g.args) : EvalF(g.args[k], env)

\* case ... esac: the value of the first branch whose guard holds
RECURSIVE EvalCase(_, _)
EvalCase(branches, env) ==
    IF EvalF(branches[1].guard, env) THEN EvalT(branches[1].value, env)
    ELSE EvalCase(Tail(branches), env)

(***************************************************************************)
(* The board texts the model is run on: every placement of an agent and    *)
(* of at most MaxBoxes boxes on the free cells of a few arenas, every      *)
(* one-row text of at most MaxRowLen characters, and a few ragged texts.   *)
(***************************************************************************)
BoardChars == {"#", " ", ".", "$", "@", "*", "+", "x"}

Arenas ==
    { << <<"#", " ", ".">>,
         <<".", " ", " ">>,
         <<" ", "#", ".">> >>,
      << <<"#", "#", "#", "#", "#">>,
         <<"#", " ", " ", ".", "#">>,
         <<"#", "#", "#", "#", "#">> >>,
      << <<" ", " ">>,
         <<" ", ".">>,
         <<".", " ">> >> }

OpenCells(arena) ==
    {c \in (0..(Len(arena[1]) - 1)) \X (0..(Len(arena) - 1)) :
        arena[c[2] + 1][c[1] + 1] # "#"}

PlacedChar(ch, isAgent, isBox) ==
    CASE isAgent -> IF ch = "." THEN "+" ELSE "@"
      [] isBox   -> IF ch = "." THEN "*" ELSE "$"
      [] OTHER   -> ch

Place(arena, agent, boxes) ==
    [y \in 1..Len(arena) |->
        [x \in 1..Len(arena[y]) |->
            PlacedChar(arena[y][x], <<x - 1, y - 1>> = agent, <<x - 1, y - 1>> \in boxes)]]

ArenaTexts ==
    UNION { { Place(a, p, B) :
                p \in OpenCells(a),
                B \in {S \in SUBSET OpenCells(a) : Cardinality(S) <= MaxBoxes} }
            : a \in Arenas }

RowTexts == {<<>>} \cup {<<row>> : row \in SeqsUpTo(BoardChars, MaxRowLen)}

RaggedTexts ==
    { << <<"#", "@">>, <<>>, <<" ", "$", ".", "#">> >>,
      << <<"@">>, <<" ", " ">>, <<"$", "+">> >>,
      << <<" ">>, <<".", "$", "@">>, <<"*">> >> }

\* The one-row board on which one push to the right wins.
PushRowText == << <<"#", "@", "$", ".", "#">> >>

BoardTexts == ArenaTexts \cup RowTexts \cup RaggedTexts \cup {PushRowText}

MoveSymbols == {"l", "r", "u", "d", "L", "R", "U", "D"}

(***************************************************************************)
(* main(): parse the board, emit the model; then the behaviours of the     *)
(* emitted model, as the checker explores them.                            *)
(***************************************************************************)
Init ==
    /\ pc = "parse"
    /\ input_board \in BoardTexts
    /\ parsed_board = None
    /\ smv_model = None
    /\ player_x = None /\ player_y = None
    /\ box_x = None /\ box_y = None
    /\ move = None
    /\ nuxmv_output = None
    /\ solution = None

\* parsed_board = parse_xsb_board(input_board)
Parse ==
    /\ pc = "parse"
    /\ LET r == parse_xsb_board(input_board)
       IN  IF Raised(r)
           THEN pc' = "failed" /\ UNCHANGED parsed_board
           ELSE pc' = "generate" /\ parsed_board' = r
    /\ UNCHANGED <<input_board, smv_model, player_x, player_y, box_x, box_y,
                   move, nuxmv_output, solution>>

\* smv_model = generate_smv_model(parsed_board); the target list of the
\* board is sorted in place before anything is emitted
Generate ==
    /\ pc = "generate"
    /\ parsed_board' = [parsed_board EXCEPT !.targets = SortTargets(@)]
    /\ LET r == generate_smv_model(parsed_board)
       IN  IF Raised(r)
           THEN pc' = "failed" /\ UNCHANGED smv_model
           ELSE pc' = "nuxmv" /\ smv_model' = r
    /\ UNCHANGED <<input_board, player_x, player_y, box_x, box_y, move,
                   nuxmv_output, solution>>

\* The initial states of the emitted model: init(player_x), init(player_y),
\* init(box_x[i]), init(box_y[i]); move has no init.
SmvInit ==
    /\ pc = "nuxmv"
    /\ pc' = "run"
    /\ player_x' = smv_model.init_player_x
    /\ player_y' = smv_model.init_player_y
    /\ box_x' = smv_model.init_box_x
    /\ box_y' = smv_model.init_box_y
    /\ move' \in MoveSymbols
    /\ UNCHANGED <<input_board, parsed_board, smv_model, nuxmv_output, solution>>

\* The values the emitted expressions read in a state of the model.
Env(model, px, py, bx, by, m) ==
    [player_x |-> px, player_y |-> py, box_x |-> bx, box_y |-> by,
     move |-> m, WIDTH |-> model.WIDTH, HEIGHT |-> model.HEIGHT]

\* The state every next(...) assigns, all evaluated in the current state.
SmvNext(model, env) ==
    [player_x |-> EvalCase(model.next_player_x, env),
     player_y |-> EvalCase(model.next_player_y, env),
     box_x    |-> [i \in 1..model.NUM_BOXES |-> EvalCase(model.next_box_x[i], env)],
     box_y    |-> [i \in 1..model.NUM_BOXES |-> EvalCase(model.next_box_y[i], env)]]

\* One transition of the emitted model; move has no next.
SmvStep ==
    /\ pc = "run"
    /\ \E nxt \in {SmvNext(smv_model, Env(smv_model, player_x, player_y, box_x, box_y, move))} :
           /\ player_x' = nxt.player_x
           /\ player_y' = nxt.player_y
           /\ box_x' = nxt.box_x
           /\ box_y' = nxt.box_y
    /\ move' \in MoveSymbols
    /\ UNCHANGED <<pc, input_board, parsed_board, smv_model, nuxmv_output, solution>>

Next == Parse \/ Generate \/ SmvInit \/ SmvStep

Spec == Init /\ [][Next]_vars

(***************************************************************************)
(* The game the claims speak of, stated on the parsed board and the        *)
(* current state, without the emitted expressions.                         *)
(***************************************************************************)
Lower == {"l", "r", "u", "d"}
Upper == {"L", "R", "U", "D"}

DX(m) == CASE m \in {"l", "L"} -> -1 [] m \in {"r", "R"} -> 1 [] OTHER -> 0
DY(m) == CASE m \in {"u", "U"} -> -1 [] m \in {"d", "D"} -> 1 [] OTHER -> 0

Running == pc = "run"
NumBoxes == Len(box_x)
BoxCell(i) == <<box_x[i], box_y[i]>>
AtInit(i) == box_x[i] = smv_model.init_box_x[i] /\ box_y[i] = smv_model.init_box_y[i]

\* The cell k cells from the agent in the direction of move m.
Ahead(m, k) == <<player_x + k * DX(m), player_y + k * DY(m)>>

\* In bounds, not a wall, not occupied by a box.
IsFree(c) ==
    /\ c[1] \in 0..(parsed_board.width - 1)
    /\ c[2] \in 0..(parsed_board.height - 1)
    /\ c \notin parsed_board.walls
    /\ \A i \in 1..NumBoxes : BoxCell(i) # c

\* C1: under an uppercase move with a box next to the agent in the move's
\* direction and a free cell beyond it, the agent advances one cell, that box
\* advances one cell in the same direction, and every other box stays.
C1_PushStep ==
    [][ ( /\ Running
          /\ move \in Upper
          /\ \E i \in 1..NumBoxes : BoxCell(i) = Ahead(move, 1)
          /\ IsFree(Ahead(move, 2)) )
        => ( /\ <<player_x', player_y'>> = Ahead(move, 1)
             /\ \A i \in 1..NumBoxes :
                    <<box_x'[i], box_y'[i]>> =
                        IF BoxCell(i) = Ahead(move, 1) THEN Ahead(move, 2) ELSE BoxCell(i) )
      ]_vars

\* Box 1 has been pushed along both axes while box 2 never moved.
C1_Witness ==
    /\ Running /\ NumBoxes = 2
    /\ box_x[1] # smv_model.init_box_x[1]
    /\ box_y[1] # smv_model.init_box_y[1]
    /\ AtInit(2)

\* C2: under a lowercase move whose destination cell is free, the agent
\* advances one cell in the move's direction and no box coordinate changes.
C2_SimpleStep ==
    [][ (Running /\ move \in Lower /\ IsFree(Ahead(move, 1)))
        => ( /\ <<player_x', player_y'>> = Ahead(move, 1)
             /\ box_x' = box_x
             /\ box_y' = box_y )
      ]_vars

\* The agent has walked along both axes next to boxes that never moved.
C2_Witness ==
    /\ Running /\ NumBoxes >= 1
    /\ player_x # smv_model.init_player_x
    /\ player_y # smv_model.init_player_y
    /\ \A i \in 1..NumBoxes : AtInit(i)

\* C3: a coordinate of box i changes in a step only if the move is the
\* uppercase symbol of a direction, box i is the cell next to the agent in
\* that direction, and the cell two cells from the agent is free.
C3_BoxFrame ==
    [][ Running =>
          \A i \in 1..NumBoxes :
              (box_x'[i] # box_x[i] \/ box_y'[i] # box_y[i])
              => ( /\ move \in Upper
                   /\ BoxCell(i) = Ahead(move, 1)
                   /\ IsFree(Ahead(move, 2)) )
      ]_vars

\* A push is selected against a box whose landing cell is not free, after
\* some box has already been pushed.
C3_Witness ==
    /\ Running /\ NumBoxes = 2
    /\ move \in Upper
    /\ \E i \in 1..NumBoxes : BoxCell(i) = Ahead(move, 1)
    /\ ~IsFree(Ahead(move, 2))
    /\ \E i \in 1..NumBoxes : ~AtInit(i)

(***************************************************************************)
(* The board of the round-trip scenario.                                   *)
(***************************************************************************)
ScenarioBoard ==
    << <<"#", "#", "#", "#", "#">>,
       <<"#", "@", "$", ".", "#">>,
       <<"#", "#", "#", "#", "#">> >>

\* The model of the scenario board is in its initial state.
ScenarioStart ==
    /\ Running
    /\ input_board = ScenarioBoard
    /\ player_x = 1 /\ player_y = 1
    /\ box_x = <<2>> /\ box_y = <<1>>

\* The guard the emitted model puts on move symbol m holds in this state:
\* the branch of next(player_x) for m is its k-th.
GuardHolds(m) ==
    \E k \in 1..8 :
        /\ smv_model.next_player_x[k].guard.args[1] = MoveIs(m)
        /\ EvalF(smv_model.next_player_x[k].guard,
                 Env(smv_model, player_x, player_y, box_x, box_y, m))

\* Selecting m changes a coordinate of the agent or of a box.
Effective(m) ==
    LET nxt == SmvNext(smv_model, Env(smv_model, player_x, player_y, box_x, box_y, m))
    IN  <<nxt.player_x, nxt.player_y, nxt.box_x, nxt.box_y>>
            # <<player_x, player_y, box_x, box_y>>

\* C4 as stated: on the scenario board the only move symbol enabled in the
\* initial state is r, and selecting it pushes the box onto (3,1).
C4_OnlyLowerR ==
    [][ ScenarioStart =>
          /\ \A m \in MoveSymbols : (GuardHolds(m) <=> m = "r") /\ (Effective(m) <=> m = "r")
          /\ move = "r" => (box_x' = <<3>> /\ box_y' = <<1>> /\ player_x' = 2 /\ player_y' = 1)
      ]_vars

\* C4 (amended): on the scenario board the only move symbol enabled in the
\* initial state is the push symbol R; selecting it moves the agent to (2,1)
\* and pushes the box onto (3,1).
C4_OnlyUpperR ==
    [][ ScenarioStart =>
          /\ \A m \in MoveSymbols : (GuardHolds(m) <=> m = "R") /\ (Effective(m) <=> m = "R")
          /\ move = "R" => (box_x' = <<3>> /\ box_y' = <<1>> /\ player_x' = 2 /\ player_y' = 1)
      ]_vars

\* The scenario board after the push: the box is on the target.
C4_Witness ==
    /\ Running
    /\ input_board = ScenarioBoard
    /\ player_x = 2 /\ player_y = 1
    /\ box_x = <<3>> /\ box_y = <<1>>

(***************************************************************************)
(* What the emitted model can reach: the states of its variables other     *)
(* than move, from the initial one, under every choice of move.            *)
(***************************************************************************)
InitialConfig(model) ==
    [player_x |-> model.init_player_x, player_y |-> model.init_player_y,
     box_x |-> model.init_box_x, box_y |-> model.init_box_y]

ConfigEnv(model, c, m) == Env(model, c.player_x, c.player_y, c.box_x, c.box_y, m)

Successors(model, c) == {SmvNext(model, ConfigEnv(model, c, m)) : m \in MoveSymbols}

RECURSIVE ReachFrom(_, _, _)
ReachFrom(model, frontier, seen) ==
    IF frontier = {} THEN seen
    ELSE LET new == UNION {Successors(model, c) : c \in frontier} \ seen
         IN  ReachFrom(model, new, seen \cup new)

Reachable(model) == ReachFrom(model, {InitialConfig(model)}, {InitialConfig(model)})

\* Every box sits on a target and every target carries a box.
Covered(c, targets) ==
    {<<c.box_x[i], c.box_y[i]>> : i \in 1..Len(c.box_x)} = Range(targets)

\* The emitted goal predicate holds (win does not read move).
Won(model, c) == EvalF(model.win, ConfigEnv(model, c, "l"))

\* C5: for a board with as many targets as boxes, if the emitted model can
\* reach a state with every box on some target, it can reach a state in
\* which win holds.
C5_PairingLosesNoSolutions ==
    ( /\ pc = "nuxmv"
      /\ Len(parsed_board.boxes) >= 1
      /\ Len(parsed_board.boxes) = Len(parsed_board.targets) )
    => \A R \in {Reachable(smv_model)} :
           (\E c \in R : Covered(c, parsed_board.targets))
           => (\E c \in R : Won(smv_model, c))

(***************************************************************************)
(* The goal predicate.                                                     *)
(***************************************************************************)
\* Cell a comes before cell b in (y, x) order.
RowMajorBefore(a, b) == a[2] < b[2] \/ (a[2] = b[2] /\ a[1] < b[1])

\* The i-th of a set of cells in (y, x) ascending order.
NthCell(T, i) == CHOOSE c \in T : Cardinality({d \in T : RowMajorBefore(d, c)}) = i - 1

\* The number of pairs the goal predicate is to constrain.
NumPairs == Min(Len(parsed_board.boxes), Len(parsed_board.targets))

\* C6: win is the conjunction over i = 1..min(numBoxes, numTargets) of
\* "box i is at the i-th target in (y, x) order": it has that many conjuncts,
\* and whatever cells the boxes are put on, it holds exactly when each of
\* these boxes is on its target (so no other box or target is constrained).
C6_GoalPairs ==
    pc = "nuxmv" =>
        /\ Len(smv_model.win.args) = NumPairs
        /\ NumPairs >= 1 =>
              \A bx \in [1..smv_model.NUM_BOXES -> 0..(smv_model.WIDTH - 1)],
                 by \in [1..smv_model.NUM_BOXES -> 0..(smv_model.HEIGHT - 1)] :
                  EvalF(smv_model.win, Env(smv_model, 0, 0, bx, by, "l"))
                  <=> \A i \in 1..NumPairs :
                          <<bx[i], by[i]>> = NthCell(Range(parsed_board.targets), i)

\* Two boxes and three targets whose (y, x) order is not their column order.
C6_Witness ==
    /\ pc = "nuxmv"
    /\ Len(parsed_board.boxes) = 2
    /\ Range(parsed_board.targets) = {<<2, 0>>, <<0, 1>>, <<2, 2>>}
    /\ Len(smv_model.win.args) = 2

(***************************************************************************)
(* extract_solution.  A Python string is the sequence of its characters;   *)
(* the returned value is a string or None.                                 *)
(***************************************************************************)
Str(chars) == [is_none |-> FALSE, str |-> chars]
PyNone     == [is_none |-> TRUE, str |-> <<>>]

SolutionLit  == <<"S", "o", "l", "u", "t", "i", "o", "n", ":">>
LurdMovesLit == <<"L", "U", "R", "D", " ", "m", "o", "v", "e", "s", ":">>
MoveEqLit    == <<"m", "o", "v", "e", " ", "=">>
\* "lurdLURD"
LurdString   == <<"l", "u", "r", "d", "L", "U", "R", "D">>

\* \s
IsSpace(ch) == ch \in {" ", "\n", "\t", "\r", "\f"}
\* [lurdLURD]
IsMoveChar(ch) == ch \in {"l", "u", "r", "d", "L", "U", "R", "D"}

\* text[i:].startswith(lit), i counted from 1
HasAt(text, i, lit) ==
    /\ i + Len(lit) - 1 <= Len(text)
    /\ SubSeq(text, i, i + Len(lit) - 1) = lit

\* s in text
Contains(text, s) == \E i \in 1..(Len(text) - Len(s) + 1) : HasAt(text, i, s)

\* \s* from position i: the first position that holds no white space
RECURSIVE SkipSpace(_, _)
SkipSpace(text, i) ==
    IF i <= Len(text) /\ IsSpace(text[i]) THEN SkipSpace(text, i + 1) ELSE i

\* [lurdLURD]+ from position i: the first position that holds no move character
RECURSIVE RunEnd(_, _)
RunEnd(text, i) ==
    IF i <= Len(text) /\ IsMoveChar(text[i]) THEN RunEnd(text, i + 1) ELSE i

\* The group of a match of the pattern that starts at position i, or the
\* empty sequence when there is none (the group of a match is never empty).
MatchAt(text, i) ==
    IF ~HasAt(text, i, SolutionLit) THEN <<>>
    ELSE LET j == SkipSpace(text, i + Len(SolutionLit))
         IN  IF ~HasAt(text, j, LurdMovesLit) THEN <<>>
             ELSE LET k == SkipSpace(text, j + Len(LurdMovesLit))
                  IN  SubSeq(text, k, RunEnd(text, k) - 1)

\* re.search: the match with the leftmost start
RECURSIVE ReSearch(_, _)
ReSearch(text, i) ==
    IF i > Len(text) THEN <<>>
    ELSE IF MatchAt(text, i) # <<>> THEN MatchAt(text, i)
    ELSE ReSearch(text, i + 1)

\* text.split(sep) for a one-character sep
RECURSIVE Split(_, _)
Split(text, sep) ==
    IF \A i \in 1..Len(text) : text[i] # sep THEN <<text>>
    ELSE LET i == CHOOSE k \in 1..Len(text) :
                      text[k] = sep /\ \A h \in 1..(k - 1) : text[h] # sep
         IN  <<SubSeq(text, 1, i - 1)>> \o Split(SubSeq(text, i + 1, Len(text)), sep)

\* s.strip()
RECURSIVE Strip(_)
Strip(s) ==
    IF s = <<>> THEN s
    ELSE IF IsSpace(s[1]) THEN Strip(Tail(s))
    ELSE IF IsSpace(s[Len(s)]) THEN Strip(SubSeq(s, 1, Len(s) - 1))
    ELSE s

\* move = line.split("=")[-1].strip()
AssignedValue(line) ==
    LET parts == Split(line, "=") IN Strip(parts[Len(parts)])

\* lurds after the loop over the lines: the value of every line that holds
\* "move =" and whose value passes the test `move in "lurdLURD"`
RECURSIVE Lurds(_)
Lurds(lines) ==
    IF lines = <<>> THEN <<>>
    ELSE LET line == lines[Len(lines)]
             rest == Lurds(SubSeq(lines, 1, Len(lines) - 1))
         IN  IF Contains(line, MoveEqLit) /\ Contains(LurdString, AssignedValue(line))
             THEN Append(rest, AssignedValue(line))
             ELSE rest

\* "".join(lurds)
RECURSIVE Concat(_)
Concat(strs) == IF strs = <<>> THEN <<>> ELSE strs[1] \o Concat(Tail(strs))

\* Mutant of extract_solution: the move lines are looked at before the
\* annotation.
extract_solution_LinesFirst(text) ==
    LET group == ReSearch(text, 1)
        lurds == Lurds(Split(text, "\n"))
    IN  IF lurds # <<>> THEN Str(Concat(lurds))
        ELSE IF group # <<>> THEN Str(group)
        ELSE PyNone

extract_solution(text) ==
    LET group == ReSearch(text, 1)
        lurds == Lurds(Split(text, "\n"))
    IN  IF group # <<>> THEN Str(group)
        ELSE IF lurds # <<>> THEN Str(Concat(lurds))
        ELSE PyNone

(***************************************************************************)
(* The checker outputs the decoder is run on: the texts made of at most    *)
(* MaxPieces pieces.                                                       *)
(***************************************************************************)
\* "Solution: LURD moves:"
AnnotationPiece == SolutionLit \o <<" ">> \o LurdMovesLit

OutputPieces ==
    { AnnotationPiece, MoveEqLit, <<" ">>, <<"\n">>, <<"r">>, <<"u">>, <<"x">> }

OutputTexts == {Concat(ps) : ps \in SeqsUpTo(OutputPieces, MaxPieces)}

InitDecoder ==
    /\ pc = "decode"
    /\ nuxmv_output \in OutputTexts
    /\ solution = None
    /\ input_board = None
    /\ parsed_board = None
    /\ smv_model = None
    /\ player_x = None /\ player_y = None
    /\ box_x = None /\ box_y = None
    /\ move = None

\* solution = extract_solution(nuxmv_outputs["bdd"])
Extract ==
    /\ pc = "decode"
    /\ pc' = "decoded"
    /\ solution' = extract_solution(nuxmv_output)
    /\ UNCHANGED <<input_board, parsed_board, smv_model, player_x, player_y,
                   box_x, box_y, move, nuxmv_output>>

NextDecoder == Extract

SpecDecoder == InitDecoder /\ [][NextDecoder]_vars

(***************************************************************************)
(* What the decoder is to return, stated on the text.                      *)
(***************************************************************************)
Decoded == pc = "decoded"

\* An annotation starts at a: "Solution:", white space, "LURD moves:", white
\* space, and a move character at c.
AnnotationFromTo(text, a, c) ==
    /\ HasAt(text, a, SolutionLit)
    /\ IsMoveChar(text[c])
    /\ \E b \in (a + Len(SolutionLit))..(c - Len(LurdMovesLit)) :
           /\ HasAt(text, b, LurdMovesLit)
           /\ \A h \in (a + Len(SolutionLit))..(b - 1) : IsSpace(text[h])
           /\ \A h \in (b + Len(LurdMovesLit))..(c - 1) : IsSpace(text[h])

AnnotationAt(text, a) ==
    /\ HasAt(text, a, SolutionLit)
    /\ \E c \in a..Len(text) : AnnotationFromTo(text, a, c)

HasAnnotation(text) == \E a \in 1..Len(text) : AnnotationAt(text, a)

\* The run of move characters of the first annotation of the text.
FirstRun(text) ==
    LET a == CHOOSE p \in 1..Len(text) :
                 AnnotationAt(text, p) /\ \A q \in 1..(p - 1) : ~AnnotationAt(text, q)
        c == CHOOSE p \in a..Len(text) : AnnotationFromTo(text, a, p)
        e == CHOOSE p \in c..Len(text) :
                 /\ \A h \in c..p : IsMoveChar(text[h])
                 /\ p = Len(text) \/ ~IsMoveChar(text[p + 1])
    IN  SubSeq(text, c, e)

\* The lines of the text: the stretches between line breaks, in order.
LineStarts(text) == {1} \cup {i + 1 : i \in {h \in 1..Len(text) : text[h] = "\n"}}
LineFrom(text, a) ==
    LET b == CHOOSE p \in (a - 1)..Len(text) :
                 /\ \A h \in a..p : text[h] # "\n"
                 /\ p = Len(text) \/ text[p + 1] = "\n"
    IN  SubSeq(text, a, b)

\* The value a line assigns to the move selector: what follows its last "=",
\* without the white space around it.
ValueOf(line) ==
    LET e == CHOOSE p \in 1..Len(line) :
                 line[p] = "=" /\ \A h \in (p + 1)..Len(line) : line[h] # "="
        inked == {h \in (e + 1)..Len(line) : ~IsSpace(line[h])}
    IN  IF inked = {} THEN <<>>
        ELSE SubSeq(line, CHOOSE h \in inked : \A g \in inked : h <= g,
                          CHOOSE h \in inked : \A g \in inked : h >= g)

\* What a line contributes to the answer: its value when the line assigns the
\* move selector one of the eight move symbols, nothing otherwise.
Contribution(line) ==
    IF Contains(line, MoveEqLit) /\ Len(ValueOf(line)) = 1 /\ IsMoveChar(ValueOf(line)[1])
    THEN ValueOf(line) ELSE <<>>

\* The contributions of the lines that start at or after position a, in order.
RECURSIVE MovesFrom(_, _)
MovesFrom(text, a) ==
    LET later == {p \in LineStarts(text) : p > a}
    IN  Contribution(LineFrom(text, a)) \o
        (IF later = {} THEN <<>>
         ELSE MovesFrom(text, CHOOSE p \in later : \A q \in later : p <= q))

AssignedMoves(text) == MovesFrom(text, 1)

\* C7: a text with no annotation and whose move lines contribute no move
\* character is answered with None, not with a string.
C7_NoAnswerIsNone ==
    (Decoded /\ ~HasAnnotation(nuxmv_output) /\ AssignedMoves(nuxmv_output) = <<>>)
    => solution = PyNone

\* C8: a text with no annotation is answered with the move symbols its move
\* lines assign, in line order; a value that is not one of the eight symbols
\* contributes nothing.
C8_OnlyMoveSymbols ==
    (Decoded /\ ~HasAnnotation(nuxmv_output))
    => solution.str = AssignedMoves(nuxmv_output)

\* C9: a text with an annotation is answered with the run of move characters
\* of its first annotation, whatever its move lines assign.
C9_AnnotationFirst ==
    (Decoded /\ HasAnnotation(nuxmv_output))
    => solution = Str(FirstRun(nuxmv_output))

\* A move line that assigns a move symbol stands on a line before the
\* annotation, whose run is another symbol; the run is the answer.
C9_Witness ==
    /\ Decoded
    /\ HasAnnotation(nuxmv_output)
    /\ HasAt(nuxmv_output, 1, MoveEqLit)
    /\ \E n \in 1..Len(nuxmv_output) :
           nuxmv_output[n] = "\n" /\ AnnotationAt(nuxmv_output, n + 1)
    /\ Len(AssignedMoves(nuxmv_output)) = 1
    /\ AssignedMoves(nuxmv_output) # FirstRun(nuxmv_output)
    /\ solution = Str(FirstRun(nuxmv_output))

(***************************************************************************)
(* Agent markers.                                                          *)
(***************************************************************************)
RECURSIVE CountIn(_)
CountIn(line) ==
    IF line = <<>> THEN 0
    ELSE (IF line[1] \in {"@", "+"} THEN 1 ELSE 0) + CountIn(Tail(line))

\* The number of agent markers of a board text.
RECURSIVE AgentMarkers(_)
AgentMarkers(text) ==
    IF text = <<>> THEN 0 ELSE CountIn(text[1]) + AgentMarkers(Tail(text))

\* C10: for a board text with no agent marker or with several, the run ends
\* in an error and no model is emitted.
C10_AgentCountValidated ==
    AgentMarkers(input_board) # 1
    => (smv_model = None /\ pc \in {"parse", "generate", "failed"})

(***************************************************************************)
(* The goal of a board without boxes.                                      *)
(***************************************************************************)
\* A formula the emitted text can be read as: the join of no formula is the
\* empty string, as in "win := ;", and is no expression.
RECURSIVE IsExpression(_)
IsExpression(g) ==
    CASE g.f \in {"TRUE", "FALSE", "=", ">=", "<"} -> TRUE
      [] g.f = "!" -> IsExpression(g.g)
      [] g.f \in {"&", "|"} ->
             /\ Len(g.args) >= 1
             /\ \A k \in 1..Len(g.args) : IsExpression(g.args[k])

\* C11: for a parsed board with an agent and no box the synthesizer does not
\* fail, and the win it emits is a condition that is true, so that win holds
\* in the initial state of the model.
C11_ZeroBoxGoalIsTrue ==
    (parsed_board # None /\ parsed_board.player # None
         /\ Len(parsed_board.boxes) = 0 /\ pc # "generate")
    => /\ pc \in {"nuxmv", "run"}
       /\ IsExpression(smv_model.win)
       /\ EvalF(smv_model.win,
                Env(smv_model, smv_model.init_player_x, smv_model.init_player_y,
                    smv_model.init_box_x, smv_model.init_box_y, "l"))

(***************************************************************************)
(* What each character of the board text registers.                        *)
(***************************************************************************)
\* The y-th line of the text that is not blank, counted from 0.
RowOf(text, y) ==
    CHOOSE j \in 1..Len(text) :
        /\ \E i \in 1..Len(text[j]) : text[j][i] # " "
        /\ Cardinality({k \in 1..(j - 1) :
               \E i \in 1..Len(text[k]) : text[k][i] # " "}) = y

\* The character at column x of that line; a space past its end.
Glyph(text, c) ==
    LET line == text[RowOf(text, c[2])]
    IN  IF c[1] < Len(line) THEN line[c[1] + 1] ELSE " "

\* The table of the classification.
Kinds(ch) ==
    CASE ch = "#" -> {"wall"}
      [] ch = "." -> {"target"}
      [] ch = "$" -> {"box"}
      [] ch = "@" -> {"agent"}
      [] ch = "*" -> {"box", "target"}
      [] ch = "+" -> {"agent", "target"}
      [] OTHER    -> {}

\* What the parsed board holds at a cell.
Registered(c) ==
    (IF c \in parsed_board.walls THEN {"wall"} ELSE {})
    \cup (IF c \in Range(parsed_board.targets) THEN {"target"} ELSE {})
    \cup (IF c \in Range(parsed_board.boxes) THEN {"box"} ELSE {})
    \cup (IF c = parsed_board.player THEN {"agent"} ELSE {})

Grid == (0..(parsed_board.width - 1)) \X (0..(parsed_board.height - 1))

\* C12: the parsed board holds at every cell exactly what the table gives for
\* the cell's character (of several agent markers the last one is the
\* agent), and nothing outside the grid; so no cell is a wall and also a box,
\* a target or the agent, and no cell is listed twice among the boxes.
C12_Classification ==
    parsed_board # None =>
        /\ \A c \in Grid :
               /\ Registered(c) \subseteq Kinds(Glyph(input_board, c))
               /\ Kinds(Glyph(input_board, c)) \ Registered(c)
                      \subseteq (IF AgentMarkers(input_board) = 1 THEN {} ELSE {"agent"})
        /\ parsed_board.walls \cup Range(parsed_board.targets)
               \cup Range(parsed_board.boxes) \subseteq Grid
        /\ parsed_board.player # None => parsed_board.player \in Grid
        /\ AgentMarkers(input_board) > 0 => parsed_board.player # None
        /\ \A c \in parsed_board.walls : Registered(c) = {"wall"}
        /\ \A i, j \in 1..Len(parsed_board.boxes) :
               parsed_board.boxes[i] = parsed_board.boxes[j] => i = j
        /\ \A i, j \in 1..Len(parsed_board.targets) :
               parsed_board.targets[i] = parsed_board.targets[j] => i = j

\* A board with a box on a target and the agent on a target has been parsed.
C12_Witness ==
    /\ parsed_board # None
    /\ \E c \in Grid : Glyph(input_board, c) = "*" /\ Registered(c) = {"box", "target"}
    /\ \E c \in Grid : Glyph(input_board, c) = "+" /\ Registered(c) = {"agent", "target"}

(***************************************************************************)
(* The identity of a box.                                                  *)
(***************************************************************************)
\* The cells of the board text that hold a box.
BoxGlyphs == {c \in Grid : Glyph(input_board, c) \in {"$", "*"}}

\* The state variable a term is about.
RECURSIVE Subject(_)
Subject(e) == IF e.t \in {"plus", "minus"} THEN Subject(e.e) ELSE e

\* init(box_x[i]), init(box_y[i]) is the i-th box cell of the text in row
\* by row, left to right order; the rules of box i assign a value of box i,
\* and the i-th conjunct of win is about box i.
BoxIndexing ==
    /\ smv_model.NUM_BOXES = Cardinality(BoxGlyphs)
    /\ \A i \in 1..smv_model.NUM_BOXES :
           /\ <<smv_model.init_box_x[i], smv_model.init_box_y[i]>> = NthCell(BoxGlyphs, i)
           /\ \A k \in 1..Len(smv_model.next_box_x[i]) :
                  Subject(smv_model.next_box_x[i][k].value) = Arr("box_x", i)
           /\ \A k \in 1..Len(smv_model.next_box_y[i]) :
                  Subject(smv_model.next_box_y[i][k].value) = Arr("box_y", i)
    /\ \A i \in 1..Len(smv_model.win.args) :
           /\ smv_model.win.args[i].args[1].a = Arr("box_x", i)
           /\ smv_model.win.args[i].args[2].a = Arr("box_y", i)

\* Box i stays where it is or goes one cell in the direction of the move.
BoxKeepsIndex ==
    /\ DOMAIN box_x' = DOMAIN box_x
    /\ DOMAIN box_y' = DOMAIN box_y
    /\ \A i \in 1..NumBoxes :
           <<box_x'[i], box_y'[i]>> \in
               {BoxCell(i), <<box_x[i] + DX(move), box_y[i] + DY(move)>>}

\* C13: box i of the model is the i-th box cell of the board in row by row,
\* left to right order and starts there; every rule and the goal conjunct of
\* index i are about box i, and in every step of the model box i stays or
\* moves by one cell: no step renumbers the boxes.
C13_BoxIdentity ==
    [][ /\ pc = "nuxmv" => /\ BoxIndexing
                            /\ box_x' = smv_model.init_box_x
                            /\ box_y' = smv_model.init_box_y
        /\ pc = "run" => BoxKeepsIndex ]_vars

\* Two boxes, the second now before the first in row by row order.
C13_Witness ==
    /\ Running
    /\ NumBoxes = 2
    /\ RowMajorBefore(BoxCell(2), BoxCell(1))

(***************************************************************************)
(* The meaning of the predicates the builders emit.                        *)
(***************************************************************************)
\* The coordinate expressions the predicates are asked about.
TermPairs ==
    {<<tx, PY>> : tx \in {Minus(PX, 2), Minus(PX, 1), PX, Plus(PX, 1), Plus(PX, 2)}}
    \cup {<<PX, ty>> : ty \in {Minus(PY, 2), Minus(PY, 1), Plus(PY, 1), Plus(PY, 2)}}
    \cup {<<Num(0), Num(0)>>}

CurrentEnv == Env(smv_model, player_x, player_y, box_x, box_y, move)

\* The cell a pair of coordinate expressions denotes in the current state.
CellOf(tx, ty) == <<EvalT(tx, CurrentEnv), EvalT(ty, CurrentEnv)>>

\* The shape of the emitted text: a constant for an empty list, else one
\* conjunct per wall cell, and boxAt under a negation for notBox.
PredicateShapes(tx, ty) ==
    \E nw \in {gen_not_wall(tx, ty, parsed_board.walls)},
       nb \in {gen_not_box(tx, ty, NumBoxes)},
       ba \in {gen_box_at(tx, ty, NumBoxes)} :
        /\ IF parsed_board.walls = {} THEN nw = TrueF
           ELSE nw.f = "&" /\ Len(nw.args) = Cardinality(parsed_board.walls)
        /\ IF NumBoxes = 0 THEN nb = TrueF /\ ba = FalseF
           ELSE nb = NotF(ba) /\ Len(ba.args) = NumBoxes

\* C14: in every state of the model and for every coordinate pair, notWall
\* holds exactly when the cell is no wall cell, notBox exactly when no box is
\* at the cell, boxAt exactly when notBox does not, and freeCell exactly when
\* the cell is in bounds, no wall and holds no box; the predicates are the
\* constants TRUE, TRUE and FALSE when there is no wall or no box.
C14_PredicateSemantics ==
    Running =>
        \A t \in TermPairs :
            \E c \in {CellOf(t[1], t[2])} :
                /\ PredicateShapes(t[1], t[2])
                /\ EvalF(gen_not_wall(t[1], t[2], parsed_board.walls), CurrentEnv)
                       <=> c \notin parsed_board.walls
                /\ EvalF(gen_not_box(t[1], t[2], NumBoxes), CurrentEnv)
                       <=> ~(\E i \in 1..NumBoxes : BoxCell(i) = c)
                /\ EvalF(gen_box_at(t[1], t[2], NumBoxes), CurrentEnv)
                       <=> (\E i \in 1..NumBoxes : BoxCell(i) = c)
                /\ EvalF(gen_free_cell(t[1], t[2], parsed_board.walls, NumBoxes), CurrentEnv)
                       <=> IsFree(c)

\* A state where the pairs asked about denote a wall cell, a box cell, a
\* free cell and a cell out of bounds.
C14_Witness ==
    /\ Running
    /\ \E t \in TermPairs : CellOf(t[1], t[2]) \in parsed_board.walls
    /\ \E t \in TermPairs : \E i \in 1..NumBoxes : CellOf(t[1], t[2]) = BoxCell(i)
    /\ \E t \in TermPairs : IsFree(CellOf(t[1], t[2]))
    /\ \E t \in TermPairs : CellOf(t[1], t[2]) \notin Grid

MovedBoxes == {i \in 1..NumBoxes : <<box_x'[i], box_y'[i]>> # BoxCell(i)}

AgentMoves == <<player_x', player_y'>> # <<player_x, player_y>>

\* C16: a step of the model moves at most one box; the box it moves was next
\* to the agent in the direction of an uppercase move and goes one cell that
\* way while the agent steps into the cell the box has left; and an agent
\* that moves under an uppercase move has moved a box.
C16_OneBoxPerStep ==
    [][ pc = "run" =>
          /\ Cardinality(MovedBoxes) <= 1
          /\ \A i \in MovedBoxes :
                 /\ move \in Upper
                 /\ BoxCell(i) = Ahead(move, 1)
                 /\ <<box_x'[i], box_y'[i]>> = Ahead(move, 2)
                 /\ <<player_x', player_y'>> = BoxCell(i)
          /\ (move \in Upper /\ AgentMoves) => MovedBoxes # {} ]_vars

\* A box has been pushed while another box stood in the row or the column
\* of the cell it left.
C16_Witness ==
    /\ Running
    /\ NumBoxes = 2
    /\ \E i, j \in 1..NumBoxes :
           /\ i # j
           /\ ~AtInit(i)
           /\ AtInit(j)
           /\ \/ smv_model.init_box_x[i] = box_x[j]
              \/ smv_model.init_box_y[i] = box_y[j]

(***************************************************************************)
(* Moves that cannot be made.                                              *)
(***************************************************************************)
\* The rule of the game for move symbol m in the current state: a step onto
\* a free cell, or a push of the box ahead onto a free cell.
MoveEnabled(m) ==
    IF m \in Lower THEN IsFree(Ahead(m, 1))
    ELSE /\ \E i \in 1..NumBoxes : BoxCell(i) = Ahead(m, 1)
         /\ IsFree(Ahead(m, 2))

\* C17: a step of the model whose move is not enabled leaves the agent and
\* every box where they are; and every step leaves player_y as it is under
\* l, r, L, R and player_x as it is under u, d, U, D.
C17_DisabledMoveStutters ==
    [][ pc = "run" =>
          /\ ~MoveEnabled(move) =>
                 /\ player_x' = player_x /\ player_y' = player_y
                 /\ box_x' = box_x /\ box_y' = box_y
          /\ move \in {"l", "r", "L", "R"} => player_y' = player_y
          /\ move \in {"u", "d", "U", "D"} => player_x' = player_x ]_vars

\* After a push, the selected move is an uppercase move toward a free cell
\* while a lowercase move toward a box is not enabled either.
C17_Witness ==
    /\ Running
    /\ \E i \in 1..NumBoxes : ~AtInit(i)
    /\ move \in Upper
    /\ IsFree(Ahead(move, 1))
    /\ \E m \in Lower : \E i \in 1..NumBoxes : BoxCell(i) = Ahead(m, 1)

(***************************************************************************)
(* The states the model reaches.                                           *)
(***************************************************************************)
\* C18: on a board with exactly one agent marker, in every reachable state
\* of the model the agent and every box are inside the grid, none of them
\* is on a wall cell, no two boxes share a cell and the agent is on no box
\* cell.
C18_StatesAreLegal ==
    (Running /\ AgentMarkers(input_board) = 1) =>
        /\ <<player_x, player_y>> \in Grid
        /\ <<player_x, player_y>> \notin parsed_board.walls
        /\ \A i \in 1..NumBoxes :
               /\ BoxCell(i) \in Grid
               /\ BoxCell(i) \notin parsed_board.walls
               /\ BoxCell(i) # <<player_x, player_y>>
               /\ \A j \in 1..NumBoxes : BoxCell(i) = BoxCell(j) => i = j

\* Both boxes have been pushed, one of them stands next to a wall, and the
\* agent is at the edge of the grid.
C18_Witness ==
    /\ Running
    /\ AgentMarkers(input_board) = 1
    /\ NumBoxes = 2
    /\ ~AtInit(1) /\ ~AtInit(2)
    /\ \E m \in Lower : <<box_x[1] + DX(m), box_y[1] + DY(m)>> \in parsed_board.walls
    /\ \E m \in Lower : Ahead(m, 1) \notin Grid

(***************************************************************************)
(* Behaviours that never win.                                              *)
(***************************************************************************)
\* win in the current state of the model.
Win == EvalF(smv_model.win, CurrentEnv)

\* win in the initial state of the model.
WinAtStart ==
    EvalF(smv_model.win,
          Env(smv_model, smv_model.init_player_x, smv_model.init_player_y,
              smv_model.init_box_x, smv_model.init_box_y, "l"))

\* A state of the model without win whose selected move is a lowercase move
\* or a move that is not enabled.
Idling ==
    /\ Running
    /\ IsExpression(smv_model.win)
    /\ move \in Lower \/ ~MoveEnabled(move)
    /\ ~Win

\* C19: when win is a condition that does not hold in the initial state, a
\* first state without win and with a lowercase or disabled move can be
\* chosen, and every such state has a successor of the same kind: the model
\* has an infinite behaviour on which win never holds, so F win is not
\* valid on it, whether or not the board can be solved.
C19_WinAvoidable ==
    /\ (pc = "nuxmv" /\ IsExpression(smv_model.win) /\ ~WinAtStart)
           => ENABLED (SmvInit /\ Idling')
    /\ Idling => ENABLED (SmvStep /\ Idling')

\* On the board #@$.# win does not hold at the start and holds after the
\* one push to the right.
C19_Witness ==
    /\ Running
    /\ input_board = PushRowText
    /\ ~WinAtStart
    /\ player_x = 2 /\ box_x = <<3>>
    /\ Win

=============================================================================
